---- MODULE Spec2Model ----
(***************************************************************************)
(* Model of js/iothub-auth.js: createHmac (the Signer) and the two         *)
(* credential builders getIoTHubV2Credentials / getIoTHubV1Credentials.    *)
(*                                                                         *)
(* A JavaScript string is a sequence of UTF-16 code units (naturals), a    *)
(* Uint8Array a sequence of naturals in 0..255.  Every async function is   *)
(* cut at its awaits: one action per run of code between two suspensions.  *)
(***************************************************************************)
EXTENDS Integers, Sequences, FiniteSets, TLC

(***************************************************************************)
(* Bounds of the exploration.                                              *)
(***************************************************************************)
\* builder calls that may be in flight at once
NumCalls == 2
\* how far the clock may advance
MaxTicks == 1
\* keys: every string over KeyAlphabet up to this length (plus KeySamples)
MaxKeyLen == 2
\* the clock when the first call can be made
ClockStart == 699

(***************************************************************************)
(* String literals of the source, as code-unit sequences.                  *)
(***************************************************************************)
\* '2021-06-30-preview'
apiversionV2 ==
    <<50, 48, 50, 49, 45, 48, 54, 45, 51, 48, 45, 112, 114, 101, 118, 105, 101, 119>>
\* '2020-09-30'
apiversionV1 ==
    <<50, 48, 50, 48, 45, 48, 57, 45, 51, 48>>
\* 'mqtt'
websocketV2 ==
    <<109, 113, 116, 116>>
\* '$iothub/websocket?iothub-no-client-cert=true'
websocketV1 ==
    <<36, 105, 111, 116, 104, 117, 98, 47, 119, 101, 98, 115, 111, 99, 107, 101,
      116, 63, 105, 111, 116, 104, 117, 98, 45, 110, 111, 45, 99, 108, 105, 101,
      110, 116, 45, 99, 101, 114, 116, 61, 116, 114, 117, 101>>
\* "av="
AV_EQ ==
    <<97, 118, 61>>
\* "&h="
H_EQ ==
    <<38, 104, 61>>
\* "&did="
DID_EQ ==
    <<38, 100, 105, 100, 61>>
\* "&am=SASb64&se="
AM_SE_EQ ==
    <<38, 97, 109, 61, 83, 65, 83, 98, 54, 52, 38, 115, 101, 61>>
\* "/"
SLASH ==
    <<47>>
\* "/?api-version="
API_VERSION_EQ ==
    <<47, 63, 97, 112, 105, 45, 118, 101, 114, 115, 105, 111, 110, 61>>
\* "/devices/"
DEVICES ==
    <<47, 100, 101, 118, 105, 99, 101, 115, 47>>
\* "SharedAccessSignature sr="
SAS_SR_EQ ==
    <<83, 104, 97, 114, 101, 100, 65, 99, 99, 101, 115, 115, 83, 105, 103, 110, 97, 116, 117, 114, 101, 32, 115, 114, 61>>
\* "&sig="
SIG_EQ ==
    <<38, 115, 105, 103, 61>>
\* "&se="
SE_EQ ==
    <<38, 115, 101, 61>>
\* "\n"
NL ==
    <<10>>

(***************************************************************************)
(* Platform functions the source calls, by what they do.                   *)
(***************************************************************************)
\* Number::toString of an integer: "-" and the decimal digits
RECURSIVE DecimalDigits(_)
DecimalDigits(n) ==
    IF n < 10 THEN <<48 + n>>
    ELSE Append(DecimalDigits(n \div 10), 48 + (n % 10))

NumberToString(n) ==
    IF n < 0 THEN <<45>> \o DecimalDigits(-n) ELSE DecimalDigits(n)

(* Numbers are IEEE-754 doubles.  The clock and the expiry are integers (below  *)
(* 2^31 in size here); expiresInMins is a double num * 2^-exp, held as the     *)
(* record [num, exp] with num an integer of at most 24 bits, 0 <= exp <= 1074. *)
\* floor(log2 m) of an integer m >= 1
Log2Floor(m) ==
    CHOOSE b \in 0..30 : m \div (2 ^ b) = 1

\* x * k of doubles, k a small integer: the significand num * k stays below
\* 2^53, so the product is exact
DoubleTimes(x, k) ==
    [num |-> x.num * k, exp |-> x.exp]

\* the largest integer not above the double p
DoubleFloor(p) ==
    IF p.exp <= 30 THEN p.num \div (2 ^ p.exp)
    ELSE IF p.num < 0 THEN -1 ELSE 0

\* whether the double p is an integer
DoubleIsInteger(p) ==
    IF p.exp <= 30 THEN p.num % (2 ^ p.exp) = 0 ELSE p.num = 0

\* whether p - floor(p) is at most 2^-j
FractionAtMost(p, j) ==
    IF p.exp <= 30
    THEN LET r == p.num % (2 ^ p.exp)
         IN  r = 0 \/ (p.exp >= j /\ r <= 2 ^ (p.exp - j))
    ELSE /\ p.num >= 0
         /\ \/ p.num = 0
            \/ /\ p.exp >= j
               /\ (p.exp - j > 30 \/ p.num <= 2 ^ (p.exp - j))

\* for an integer m # 0: the j for which 2^-j is half the distance from m to the
\* next double in the direction of m + 1 (a double carries 53 significant bits)
HalfGapExponent(m) ==
    IF m > 0 THEN 53 - Log2Floor(m)
    ELSE IF 2 ^ Log2Floor(-m) = -m THEN 54 - Log2Floor(-m)
    ELSE 53 - Log2Floor(-m)

\* t + p of doubles, t an integer: the exact sum rounded to the nearest double,
\* ties to even.  The result is given by its floor and by whether it is an
\* integer: a sum no more than half a gap above the integer m = t + floor(p) is
\* rounded to m, any other sum to a double above m and not above m + 1
DoublePlus(t, p) ==
    LET m == t + DoubleFloor(p)
    IN  [floor |-> m,
         integer |-> \/ DoubleIsInteger(p)
                     \/ m # 0 /\ FractionAtMost(p, HalfGapExponent(m))]

\* Math.ceil of a double given by its floor and whether it is an integer
MathCeil(x) ==
    IF x.integer THEN x.floor ELSE x.floor + 1

IsHighSurrogate(u) ==
    u >= 55296 /\ u <= 56319

IsLowSurrogate(u) ==
    u >= 56320 /\ u <= 57343

\* String.prototype[@@iterator]: the string cut into code points, each a string
\* of one code unit, or of two for a surrogate pair
RECURSIVE StringIterator(_)
StringIterator(s) ==
    IF s = <<>> THEN <<>>
    ELSE IF Len(s) >= 2 /\ IsHighSurrogate(s[1]) /\ IsLowSurrogate(s[2])
         THEN <<SubSeq(s, 1, 2)>> \o StringIterator(SubSeq(s, 3, Len(s)))
         ELSE <<SubSeq(s, 1, 1)>> \o StringIterator(Tail(s))

\* the conversion a Uint8Array applies to a stored number
ToUint8(n) ==
    n % 256

\* Uint8Array.from(s, c => c.charCodeAt(0)): one element per iterated code point,
\* its first code unit, stored modulo 256
Uint8ArrayFromCharCodes(s) ==
    LET it == StringIterator(s)
    IN  [i \in 1..Len(it) |-> ToUint8(it[i][1])]

\* String.fromCharCode(...bytes)
StringFromCharCode(bytes) ==
    bytes

\* "ABCDEFGHIJKLMNOPQRSTUVWXYZabcdefghijklmnopqrstuvwxyz0123456789+/"
Base64Alphabet ==
    [i \in 1..64 |->
        IF i <= 26 THEN 64 + i
        ELSE IF i <= 52 THEN 70 + i
        ELSE IF i <= 62 THEN i - 5
        ELSE IF i = 63 THEN 43 ELSE 47]

IsBase64Char(c) ==
    \E i \in 1..64 : Base64Alphabet[i] = c

\* the 6-bit value of a base64 character
Base64Value(c) ==
    (CHOOSE i \in 1..64 : Base64Alphabet[i] = c) - 1

IsAsciiWhitespace(c) ==
    c \in {9, 10, 12, 13, 32}

\* the bit-buffer loop of forgiving-base64 decode: 4 characters give 3 bytes;
\* a rest of 2 characters gives 1 byte (4 bits dropped), of 3 gives 2 (2 dropped)
RECURSIVE DecodeSextets(_)
DecodeSextets(s) ==
    LET n == Len(s)
    IN  IF n = 0 THEN <<>>
        ELSE IF n >= 4 THEN
            LET v == Base64Value(s[1]) * 262144 + Base64Value(s[2]) * 4096
                     + Base64Value(s[3]) * 64 + Base64Value(s[4])
            IN  <<v \div 65536, (v \div 256) % 256, v % 256>>
                \o DecodeSextets(SubSeq(s, 5, n))
        ELSE IF n = 2 THEN
            <<(Base64Value(s[1]) * 64 + Base64Value(s[2])) \div 16>>
        ELSE
            LET v == Base64Value(s[1]) * 4096 + Base64Value(s[2]) * 64
                     + Base64Value(s[3])
            IN  <<v \div 1024, (v \div 4) % 256>>

\* mutant: a lenient decoder that skips what is not a base64 character
AtobLenient(data) ==
    LET kept == SelectSeq(data, LAMBDA c : IsBase64Char(c))
        usable == IF Len(kept) % 4 = 1 THEN SubSeq(kept, 1, Len(kept) - 1) ELSE kept
    IN  [ok |-> TRUE, value |-> DecodeSextets(usable)]

\* window.atob: forgiving-base64 decode.  ok = FALSE is the InvalidCharacterError
\* it throws; value is the binary string (one character per byte)
Atob(data) ==
    LET stripped == SelectSeq(data, LAMBDA c : ~IsAsciiWhitespace(c))
        n == Len(stripped)
        unpadded ==
            IF n > 0 /\ n % 4 = 0 /\ stripped[n] = 61
            THEN IF stripped[n - 1] = 61 THEN SubSeq(stripped, 1, n - 2)
                 ELSE SubSeq(stripped, 1, n - 1)
            ELSE stripped
    IN  IF Len(unpadded) % 4 = 1
           \/ \E i \in 1..Len(unpadded) : ~IsBase64Char(unpadded[i])
        THEN [ok |-> FALSE, value |-> <<>>]
        ELSE [ok |-> TRUE, value |-> DecodeSextets(unpadded)]

\* window.btoa of a binary string (every code unit <= 255): 3 bytes give 4
\* characters, the rest is padded with "="
RECURSIVE Btoa(_)
Btoa(b) ==
    LET n == Len(b)
        ch(i) == Base64Alphabet[i + 1]
    IN  IF n = 0 THEN <<>>
        ELSE IF n >= 3 THEN
            LET v == b[1] * 65536 + b[2] * 256 + b[3]
            IN  <<ch(v \div 262144), ch((v \div 4096) % 64), ch((v \div 64) % 64),
                  ch(v % 64)>> \o Btoa(SubSeq(b, 4, n))
        ELSE IF n = 1 THEN
            <<ch(b[1] \div 4), ch((b[1] % 4) * 16), 61, 61>>
        ELSE
            LET v == (b[1] * 256 + b[2]) * 4
            IN  <<ch(v \div 4096), ch((v \div 64) % 64), ch(v % 64), 61>>

\* "0123456789ABCDEF"
HexDigit(d) ==
    IF d < 10 THEN 48 + d ELSE 55 + d

PercentEscape(byte) ==
    <<37, HexDigit(byte \div 16), HexDigit(byte % 16)>>

\* the characters encodeURIComponent leaves alone: A-Z a-z 0-9 - _ . ! ~ * ' ( )
IsUriUnreserved(c) ==
    \/ c >= 65 /\ c <= 90
    \/ c >= 97 /\ c <= 122
    \/ c >= 48 /\ c <= 57
    \/ c \in {45, 95, 46, 33, 126, 42, 39, 40, 41}

\* the UTF-8 bytes of a code point below 65536
Utf8(c) ==
    IF c < 128 THEN <<c>>
    ELSE IF c < 2048 THEN <<192 + (c \div 64), 128 + (c % 64)>>
    ELSE <<224 + (c \div 4096), 128 + ((c \div 64) % 64), 128 + (c % 64)>>

RECURSIVE PercentEscapeAll(_)
PercentEscapeAll(bytes) ==
    IF bytes = <<>> THEN <<>>
    ELSE PercentEscape(Head(bytes)) \o PercentEscapeAll(Tail(bytes))

\* encodeURIComponent, on strings without surrogates (its argument in the source
\* is always btoa's output, which is ASCII)
RECURSIVE EncodeURIComponent(_)
EncodeURIComponent(s) ==
    IF s = <<>> THEN <<>>
    ELSE (IF IsUriUnreserved(Head(s)) THEN <<Head(s)>>
          ELSE PercentEscapeAll(Utf8(Head(s))))
         \o EncodeURIComponent(Tail(s))

(***************************************************************************)
(* window.crypto.subtle.sign('HMAC', cryptoKey, msgBytes) for a key         *)
(* imported with hash 'SHA-256': HMAC (RFC 2104) over SHA-256 (FIPS 180-4). *)
(* A 32-bit word is the pair <<high 16 bits, low 16 bits>>.                 *)
(***************************************************************************)
\* XorNibble[a + 1][b + 1] = a xor b for a, b in 0..15
XorNibble ==
    <<<< 0,  1,  2,  3,  4,  5,  6,  7,  8,  9, 10, 11, 12, 13, 14, 15>>,
      << 1,  0,  3,  2,  5,  4,  7,  6,  9,  8, 11, 10, 13, 12, 15, 14>>,
      << 2,  3,  0,  1,  6,  7,  4,  5, 10, 11,  8,  9, 14, 15, 12, 13>>,
      << 3,  2,  1,  0,  7,  6,  5,  4, 11, 10,  9,  8, 15, 14, 13, 12>>,
      << 4,  5,  6,  7,  0,  1,  2,  3, 12, 13, 14, 15,  8,  9, 10, 11>>,
      << 5,  4,  7,  6,  1,  0,  3,  2, 13, 12, 15, 14,  9,  8, 11, 10>>,
      << 6,  7,  4,  5,  2,  3,  0,  1, 14, 15, 12, 13, 10, 11,  8,  9>>,
      << 7,  6,  5,  4,  3,  2,  1,  0, 15, 14, 13, 12, 11, 10,  9,  8>>,
      << 8,  9, 10, 11, 12, 13, 14, 15,  0,  1,  2,  3,  4,  5,  6,  7>>,
      << 9,  8, 11, 10, 13, 12, 15, 14,  1,  0,  3,  2,  5,  4,  7,  6>>,
      <<10, 11,  8,  9, 14, 15, 12, 13,  2,  3,  0,  1,  6,  7,  4,  5>>,
      <<11, 10,  9,  8, 15, 14, 13, 12,  3,  2,  1,  0,  7,  6,  5,  4>>,
      <<12, 13, 14, 15,  8,  9, 10, 11,  4,  5,  6,  7,  0,  1,  2,  3>>,
      <<13, 12, 15, 14,  9,  8, 11, 10,  5,  4,  7,  6,  1,  0,  3,  2>>,
      <<14, 15, 12, 13, 10, 11,  8,  9,  6,  7,  4,  5,  2,  3,  0,  1>>,
      <<15, 14, 13, 12, 11, 10,  9,  8,  7,  6,  5,  4,  3,  2,  1,  0>>>>

\* AndNibble[a + 1][b + 1] = a and b for a, b in 0..15
AndNibble ==
    <<<< 0,  0,  0,  0,  0,  0,  0,  0,  0,  0,  0,  0,  0,  0,  0,  0>>,
      << 0,  1,  0,  1,  0,  1,  0,  1,  0,  1,  0,  1,  0,  1,  0,  1>>,
      << 0,  0,  2,  2,  0,  0,  2,  2,  0,  0,  2,  2,  0,  0,  2,  2>>,
      << 0,  1,  2,  3,  0,  1,  2,  3,  0,  1,  2,  3,  0,  1,  2,  3>>,
      << 0,  0,  0,  0,  4,  4,  4,  4,  0,  0,  0,  0,  4,  4,  4,  4>>,
      << 0,  1,  0,  1,  4,  5,  4,  5,  0,  1,  0,  1,  4,  5,  4,  5>>,
      << 0,  0,  2,  2,  4,  4,  6,  6,  0,  0,  2,  2,  4,  4,  6,  6>>,
      << 0,  1,  2,  3,  4,  5,  6,  7,  0,  1,  2,  3,  4,  5,  6,  7>>,
      << 0,  0,  0,  0,  0,  0,  0,  0,  8,  8,  8,  8,  8,  8,  8,  8>>,
      << 0,  1,  0,  1,  0,  1,  0,  1,  8,  9,  8,  9,  8,  9,  8,  9>>,
      << 0,  0,  2,  2,  0,  0,  2,  2,  8,  8, 10, 10,  8,  8, 10, 10>>,
      << 0,  1,  2,  3,  0,  1,  2,  3,  8,  9, 10, 11,  8,  9, 10, 11>>,
      << 0,  0,  0,  0,  4,  4,  4,  4,  8,  8,  8,  8, 12, 12, 12, 12>>,
      << 0,  1,  0,  1,  4,  5,  4,  5,  8,  9,  8,  9, 12, 13, 12, 13>>,
      << 0,  0,  2,  2,  4,  4,  6,  6,  8,  8, 10, 10, 12, 12, 14, 14>>,
      << 0,  1,  2,  3,  4,  5,  6,  7,  8,  9, 10, 11, 12, 13, 14, 15>>>>

\* a xor b of 16-bit numbers
Xor16(a, b) ==
    XorNibble[(a \div 4096) + 1][(b \div 4096) + 1] * 4096
    + XorNibble[((a \div 256) % 16) + 1][((b \div 256) % 16) + 1] * 256
    + XorNibble[((a \div 16) % 16) + 1][((b \div 16) % 16) + 1] * 16
    + XorNibble[(a % 16) + 1][(b % 16) + 1]

\* a and b of 16-bit numbers
And16(a, b) ==
    AndNibble[(a \div 4096) + 1][(b \div 4096) + 1] * 4096
    + AndNibble[((a \div 256) % 16) + 1][((b \div 256) % 16) + 1] * 256
    + AndNibble[((a \div 16) % 16) + 1][((b \div 16) % 16) + 1] * 16
    + AndNibble[(a % 16) + 1][(b % 16) + 1]

\* x xor y xor z of words
WordXor3(x, y, z) ==
    <<Xor16(Xor16(x[1], y[1]), z[1]), Xor16(Xor16(x[2], y[2]), z[2])>>

\* the word <<hi, lo>> rotated right by r bits (0 < r < 16)
RotrHalves(hi, lo, r) ==
    <<(hi \div (2 ^ r)) + (lo % (2 ^ r)) * (2 ^ (16 - r)),
      (lo \div (2 ^ r)) + (hi % (2 ^ r)) * (2 ^ (16 - r))>>

\* the word x rotated right by r bits (0 < r < 32, r # 16)
Rotr(x, r) ==
    IF r < 16 THEN RotrHalves(x[1], x[2], r) ELSE RotrHalves(x[2], x[1], r - 16)

\* the word x shifted right by r bits (0 < r < 32)
Shr(x, r) ==
    IF r < 16
    THEN <<x[1] \div (2 ^ r),
           (x[2] \div (2 ^ r)) + (x[1] % (2 ^ r)) * (2 ^ (16 - r))>>
    ELSE <<0, x[1] \div (2 ^ (r - 16))>>

\* the word of a sum of words taken half by half: the carry of the low halves
\* goes into the high half, the carry of the high halves is dropped (mod 2^32)
WordOf(hi, lo) ==
    <<(hi + (lo \div 65536)) % 65536, lo % 65536>>

Add2(a, b) ==
    WordOf(a[1] + b[1], a[2] + b[2])

Add4(a, b, c, d) ==
    WordOf(a[1] + b[1] + c[1] + d[1], a[2] + b[2] + c[2] + d[2])

Add5(a, b, c, d, e) ==
    WordOf(a[1] + b[1] + c[1] + d[1] + e[1], a[2] + b[2] + c[2] + d[2] + e[2])

\* Ch(e, f, g) = (e and f) xor (not e and g)
Ch(e, f, g) ==
    <<And16(e[1], f[1]) + And16(65535 - e[1], g[1]),
      And16(e[2], f[2]) + And16(65535 - e[2], g[2])>>

\* Maj(a, b, c) = (a and b) xor (a and c) xor (b and c)
Maj(a, b, c) ==
    <<And16(a[1], b[1]) + And16(c[1], Xor16(a[1], b[1])),
      And16(a[2], b[2]) + And16(c[2], Xor16(a[2], b[2]))>>

BigSigma0(x) ==
    WordXor3(Rotr(x, 2), Rotr(x, 13), Rotr(x, 22))

BigSigma1(x) ==
    WordXor3(Rotr(x, 6), Rotr(x, 11), Rotr(x, 25))

SmallSigma0(x) ==
    WordXor3(Rotr(x, 7), Rotr(x, 18), Shr(x, 3))

SmallSigma1(x) ==
    WordXor3(Rotr(x, 17), Rotr(x, 19), Shr(x, 10))

\* the round constants K[0..63] (0x428a2f98, 0x71374491, ...)
Sha256K ==
    <<<<17034, 12184>>, <<28983, 17553>>, <<46528, 64463>>, <<59829, 56229>>,
      <<14678, 49755>>, <<23025, 4593>>, <<37439, 33444>>, <<43804, 24277>>,
      <<55303, 43672>>, <<4739, 23297>>, <<9265, 34238>>, <<21772, 32195>>,
      <<29374, 23924>>, <<32990, 45566>>, <<39900, 1703>>, <<49563, 61812>>,
      <<58523, 27073>>, <<61374, 18310>>, <<4033, 40390>>, <<9228, 41420>>,
      <<11753, 11375>>, <<19060, 33962>>, <<23728, 43484>>, <<30457, 35034>>,
      <<38974, 20818>>, <<43057, 50797>>, <<45059, 10184>>, <<48985, 32711>>,
      <<50912, 3059>>, <<54695, 37191>>, <<1738, 25425>>, <<5161, 10599>>,
      <<10167, 2693>>, <<11803, 8504>>, <<19756, 28156>>, <<21304, 3347>>,
      <<25866, 29524>>, <<30314, 2747>>, <<33218, 51502>>, <<37490, 11397>>,
      <<41663, 59553>>, <<43034, 26187>>, <<49739, 35696>>, <<51052, 20899>>,
      <<53650, 59417>>, <<54937, 1572>>, <<62478, 13701>>, <<4202, 41072>>,
      <<6564, 49430>>, <<7735, 27656>>, <<10056, 30540>>, <<13488, 48309>>,
      <<14620, 3251>>, <<20184, 43594>>, <<23452, 51791>>, <<26670, 28659>>,
      <<29839, 33518>>, <<30885, 25455>>, <<33992, 30740>>, <<36039, 520>>,
      <<37054, 65530>>, <<42064, 27883>>, <<48889, 41975>>, <<50801, 30962>>>>

\* the initial hash value H(0) (0x6a09e667, 0xbb67ae85, ...)
Sha256H0 ==
    <<<<27145, 58983>>, <<47975, 44677>>, <<15470, 62322>>, <<42319, 62778>>,
      <<20750, 21119>>, <<39685, 26764>>, <<8067, 55723>>, <<23520, 52505>>>>

\* the big-endian words of a run of bytes (a multiple of four)
RECURSIVE BlockWords(_)
BlockWords(block) ==
    IF block = <<>> THEN <<>>
    ELSE <<<<block[1] * 256 + block[2], block[3] * 256 + block[4]>>>>
         \o BlockWords(SubSeq(block, 5, Len(block)))

\* W[i] = sigma1(W[i-2]) + W[i-7] + sigma0(W[i-15]) + W[i-16], w holding the words
\* before it
ScheduleWord(w, i) ==
    Add4(SmallSigma1(w[i - 2]), w[i - 7], SmallSigma0(w[i - 15]), w[i - 16])

Extend2(w) ==
    w \o <<ScheduleWord(w, Len(w) + 1), ScheduleWord(w, Len(w) + 2)>>

\* the message schedule: the 16 words of a block extended to 64
RECURSIVE Schedule(_)
Schedule(w) ==
    IF Len(w) = 64 THEN w
    ELSE Schedule(Extend2(Extend2(Extend2(Extend2(w)))))

\* the working variables s = <<a, b, c, d, e, f, g, h>> after a round, given its
\* T1 and T2
NextWorking(s, t1, t2) ==
    <<Add2(t1, t2), s[1], s[2], s[3], Add2(s[4], t1), s[5], s[6], s[7]>>

\* one round: T1 = h + Sigma1(e) + Ch(e, f, g) + K + W, T2 = Sigma0(a) + Maj(a, b, c)
Round(s, k, w) ==
    NextWorking(s,
                Add5(s[8], BigSigma1(s[5]), Ch(s[5], s[6], s[7]), k, w),
                Add2(BigSigma0(s[1]), Maj(s[1], s[2], s[3])))

\* trace: the working variables before round 1, after round 1, after round 2, ...
Step(trace, w) ==
    Append(trace, Round(trace[Len(trace)], Sha256K[Len(trace)], w[Len(trace)]))

Step4(trace, w) ==
    Step(Step(Step(Step(trace, w), w), w), w)

\* the working variables after all rounds of the schedule w
RECURSIVE Rounds(_, _)
Rounds(trace, w) ==
    IF Len(trace) = Len(w) + 1 THEN trace[Len(trace)]
    ELSE Rounds(Step4(Step4(trace, w), w), w)

\* the hash value h with the working variables s added word by word
AddWorking(h, s) ==
    <<Add2(h[1], s[1]), Add2(h[2], s[2]), Add2(h[3], s[3]), Add2(h[4], s[4]),
      Add2(h[5], s[5]), Add2(h[6], s[6]), Add2(h[7], s[7]), Add2(h[8], s[8])>>

\* the hash value h after one more 64-byte block
Compress(h, block) ==
    AddWorking(h, Rounds(<<h>>, Schedule(BlockWords(block))))

Zeros64 ==
    <<0, 0, 0, 0, 0, 0, 0, 0, 0, 0, 0, 0, 0, 0, 0, 0,
      0, 0, 0, 0, 0, 0, 0, 0, 0, 0, 0, 0, 0, 0, 0, 0,
      0, 0, 0, 0, 0, 0, 0, 0, 0, 0, 0, 0, 0, 0, 0, 0,
      0, 0, 0, 0, 0, 0, 0, 0, 0, 0, 0, 0, 0, 0, 0, 0>>

\* k zero bytes (k <= 64)
Zeros(k) ==
    SubSeq(Zeros64, 1, k)

\* the padding of a message of len bytes: 0x80, zeros up to 56 modulo 64, and the
\* bit length as a 64-bit big-endian number
Sha256Pad(len) ==
    <<128>> \o Zeros((119 - (len % 64)) % 64) \o <<0, 0, 0, 0>>
    \o <<((len * 8) \div 16777216) % 256, ((len * 8) \div 65536) % 256,
         ((len * 8) \div 256) % 256, (len * 8) % 256>>

\* chain: the hash values H(0), H(1), ...; the last one once bytes are used up
RECURSIVE Blocks(_, _)
Blocks(chain, bytes) ==
    IF bytes = <<>> THEN chain[Len(chain)]
    ELSE Blocks(Append(chain, Compress(chain[Len(chain)], SubSeq(bytes, 1, 64))),
                SubSeq(bytes, 65, Len(bytes)))

WordBytes(w) ==
    <<w[1] \div 256, w[1] % 256, w[2] \div 256, w[2] % 256>>

WordsToBytes(h) ==
    WordBytes(h[1]) \o WordBytes(h[2]) \o WordBytes(h[3]) \o WordBytes(h[4])
    \o WordBytes(h[5]) \o WordBytes(h[6]) \o WordBytes(h[7]) \o WordBytes(h[8])

\* the SHA-256 digest (32 bytes) of a byte string
Sha256(bytes) ==
    WordsToBytes(Blocks(<<Sha256H0>>, bytes \o Sha256Pad(Len(bytes))))

\* k padded with zeros to the block length
ZeroPad(k) ==
    k \o Zeros(64 - Len(k))

\* the key brought to the block length: hashed if longer, padded with zeros
HmacKeyBlock(key) ==
    ZeroPad(IF Len(key) > 64 THEN Sha256(key) ELSE key)

\* every byte xor pad
RECURSIVE XorPad(_, _)
XorPad(bytes, pad) ==
    IF Len(bytes) = 1 THEN <<Xor16(bytes[1], pad)>>
    ELSE XorPad(SubSeq(bytes, 1, Len(bytes) \div 2), pad)
         \o XorPad(SubSeq(bytes, (Len(bytes) \div 2) + 1, Len(bytes)), pad)

\* H((K xor opad) || H((K xor ipad) || msg)) for the key block k0, opad 0x5c,
\* ipad 0x36
HmacBlocks(k0, msg) ==
    Sha256(XorPad(k0, 92) \o Sha256(XorPad(k0, 54) \o msg))

\* HMAC-SHA-256
HmacSha256(key, msg) ==
    HmacBlocks(HmacKeyBlock(key), msg)

(***************************************************************************)
(* Values a call holds.                                                    *)
(***************************************************************************)
\* a local that is not assigned yet, and one that is
Unset ==
    <<>>

Some(x) ==
    <<x>>

\* a promise: pending, fulfilled with a value, or rejected with a reason
Pending ==
    [state |-> "pending", value |-> <<>>, reason |-> ""]

Fulfilled(v) ==
    [state |-> "fulfilled", value |-> <<v>>, reason |-> ""]

Rejected(e) ==
    [state |-> "rejected", value |-> <<>>, reason |-> e]

\* the expiresInMins argument: undefined (omitted), or the double num * 2^-exp
Undefined ==
    [given |-> FALSE, num |-> 0, exp |-> 0]

Mins(num, exp) ==
    [given |-> TRUE, num |-> num, exp |-> exp]

\* the default parameter value of both builders: expiresInMins = 5
DefaultExpiresInMins == 5

\* parameter default: applied when the argument is undefined
ExpiresInMinsParam(arg) ==
    IF arg.given THEN arg ELSE Mins(DefaultExpiresInMins, 0)

(***************************************************************************)
(* The pure parts of the three functions of the source.                    *)
(***************************************************************************)
\* Math.ceil(Date.now() + expiresInMins * 60), Date.now() having returned t
ExpiresV2(t, expiresInMins) ==
    MathCeil(DoublePlus(t, DoubleTimes(expiresInMins, 60)))

ExpiresV1(t, expiresInMins) ==
    MathCeil(DoublePlus(t, DoubleTimes(expiresInMins, 60)))

\* `av=${apiversion}&h=${hostname}&did=${deviceId}&am=SASb64&se=${expires}`
UsernameV2(hostname, deviceId, expires) ==
    AV_EQ \o apiversionV2 \o H_EQ \o hostname \o DID_EQ \o deviceId
    \o AM_SE_EQ \o NumberToString(expires)

\* mutant: hostname and deviceId percent-encoded
UsernameV1Encoded(hostname, deviceId) ==
    EncodeURIComponent(hostname) \o SLASH \o EncodeURIComponent(deviceId)
    \o API_VERSION_EQ \o apiversionV1

\* `${hostname}/${deviceId}/?api-version=${apiversion}`
UsernameV1(hostname, deviceId) ==
    hostname \o SLASH \o deviceId \o API_VERSION_EQ \o apiversionV1

\* `${hostname}\n${deviceId}`
ResourceV2(hostname, deviceId) ==
    hostname \o NL \o deviceId

\* `${hostname}/devices/${deviceId}`
ResourceUriV1(hostname, deviceId) ==
    hostname \o DEVICES \o deviceId

\* mutant: the newline after expires left out
MessageV2NoTrailingNewline(resource, expires) ==
    resource \o NL \o NL \o NL \o NumberToString(expires)

\* generateV2Token's message: `${resource}\n\n\n${expires}\n`
MessageV2(resource, expires) ==
    resource \o NL \o NL \o NL \o NumberToString(expires) \o NL

\* mutant: the two fields of the message swapped
MessageV1ExpiryFirst(resourceUri, expiresv1) ==
    NumberToString(expiresv1) \o NL \o resourceUri

\* generateToken's message: `${resourceUri}\n${expiresv1}`
MessageV1(resourceUri, expiresv1) ==
    resourceUri \o NL \o NumberToString(expiresv1)

\* mutant: the signature put into the token without encodeURIComponent
SasTokenV1RawSig(resourceUri, hmac, expiresv1) ==
    SAS_SR_EQ \o resourceUri \o SIG_EQ \o hmac \o SE_EQ \o NumberToString(expiresv1)

\* `SharedAccessSignature sr=${resourceUri}&sig=${encodeURIComponent(hmac)}&se=${expiresv1}`
SasTokenV1(resourceUri, hmac, expiresv1) ==
    SAS_SR_EQ \o resourceUri \o SIG_EQ \o EncodeURIComponent(hmac)
    \o SE_EQ \o NumberToString(expiresv1)

\* createHmac line 9: the key decoded to bytes; ok = FALSE when atob throws
KeyBytes(key) ==
    LET decoded == Atob(key)
    IN  [ok |-> decoded.ok, value |-> Uint8ArrayFromCharCodes(decoded.value)]

RECURSIVE Utf8All(_)
Utf8All(s) ==
    IF s = <<>> THEN <<>> ELSE Utf8(Head(s)) \o Utf8All(Tail(s))

\* mutant: the message encoded as UTF-8 (TextEncoder)
MsgBytesUtf8(msg) ==
    Utf8All(msg)

\* createHmac line 10
MsgBytes(msg) ==
    Uint8ArrayFromCharCodes(msg)

\* crypto.subtle.importKey('raw', keyBytes, {name: 'HMAC', hash: 'SHA-256'}, ...):
\* an empty key is refused with a DataError, any other byte string is the key
ImportKey(keyBytes) ==
    IF Len(keyBytes) = 0 THEN Rejected("DataError") ELSE Fulfilled(keyBytes)

\* createHmac line 16: window.btoa(String.fromCharCode(...new Uint8Array(signature)))
EncodeSignature(signature) ==
    Btoa(StringFromCharCode(signature))

(***************************************************************************)
(* Arguments the callers pass.                                             *)
(***************************************************************************)
RECURSIVE SeqsOfLen(_, _)
SeqsOfLen(S, k) ==
    IF k = 0 THEN {<<>>}
    ELSE {Append(s, x) : s \in SeqsOfLen(S, k - 1), x \in S}

SeqsUpTo(S, n) ==
    UNION {SeqsOfLen(S, k) : k \in 0..n}

\* "hub"
Hostnames ==
    {<<104, 117, 98>>}

\* "d1"
DeviceIds ==
    {<<100, 49>>}

\* "YQ==" (the one byte "a"), "" (decodes to no bytes, which importKey refuses)
Keys ==
    {<<89, 81, 61, 61>>, <<>>}

\* omitted, and half a minute
ExpiresInMinsArgs ==
    {Undefined, Mins(1, 1)}

\* every key with the window omitted, and the key "YQ==" with every window
Arguments ==
    (Hostnames \X DeviceIds \X Keys \X {Undefined})
    \cup (Hostnames \X DeviceIds \X {<<89, 81, 61, 61>>} \X ExpiresInMinsArgs)

\* "h.io", "h" U+00FF U+0141, U+1F600 (a surrogate pair), "a/b c+d"
WideHostnames ==
    {<<104, 46, 105, 111>>, <<104, 255, 321>>, <<55357, 56832>>,
     <<97, 47, 98, 32, 99, 43, 100>>}

\* "d1", "", "d&se=9"
WideDeviceIds ==
    {<<100, 49>>, <<>>, <<100, 38, 115, 101, 61, 57>>}

\* Y Q = % and the space
KeyAlphabet ==
    {89, 81, 61, 37, 32}

\* "YQ==", "YWJj", "a2V5MQ==", "Y Q==", "YQ=", "+/8=", "YQ==YQ==", "YWI", "AAAA",
\* "AQH+"
KeySamples ==
    {<<89, 81, 61, 61>>, <<89, 87, 74, 106>>,
     <<97, 50, 86, 53, 77, 81, 61, 61>>, <<89, 32, 81, 61, 61>>,
     <<89, 81, 61>>, <<43, 47, 56, 61>>,
     <<89, 81, 61, 61, 89, 81, 61, 61>>, <<89, 87, 73>>,
     <<65, 65, 65, 65>>, <<65, 81, 72, 43>>}

WideKeys ==
    SeqsUpTo(KeyAlphabet, MaxKeyLen) \cup KeySamples

\* omitted, 5, 1/2, 1/8 (7.5 units), 0, -20, -1/8, and two windows far below one
\* unit: 2^-49 and 2^-50 minutes (60 * 2^-49 and 60 * 2^-50 units)
WideExpiresInMinsArgs ==
    {Undefined, Mins(5, 0), Mins(1, 1), Mins(1, 3), Mins(0, 0), Mins(-20, 0),
     Mins(-1, 3), Mins(1, 49), Mins(1, 50)}

\* every hostname with every deviceId, every key, every window: each varied
\* with the other arguments at "h.io", "d1", "YQ==" and the default window
WideArguments ==
    (WideHostnames \X WideDeviceIds \X {<<89, 81, 61, 61>>} \X {Undefined})
    \cup ({<<104, 46, 105, 111>>} \X {<<100, 49>>} \X WideKeys \X {Undefined})
    \cup ({<<104, 46, 105, 111>>} \X {<<100, 49>>} \X {<<89, 81, 61, 61>>}
          \X WideExpiresInMinsArgs)

(***************************************************************************)
(* Signing.  HmacSha256 is a long computation, and a call signs what its   *)
(* arguments and its clock reading determine: the signatures of the        *)
(* arguments above, at the clock readings that can occur, are computed     *)
(* once and looked up.                                                     *)
(***************************************************************************)
\* what Date.now() can return
ClockReadings ==
    ClockStart..(ClockStart + MaxTicks)

\* the <<key bytes, message bytes>> the two builders have signed when called with
\* arguments a = <<hostname, deviceId, key, expiresInMins>> at clock reading t
SignInputs(a, t) ==
    LET kb == KeyBytes(a[3])
        mins == ExpiresInMinsParam(a[4])
    IN  IF ~kb.ok \/ ImportKey(kb.value).state = "rejected" THEN {}
        ELSE {<<kb.value, MsgBytes(MessageV2(ResourceV2(a[1], a[2]), ExpiresV2(t, mins)))>>,
              <<kb.value, MsgBytes(MessageV1(ResourceUriV1(a[1], a[2]), ExpiresV1(t, mins)))>>}

SignedPairs ==
    UNION {SignInputs(a, t) : a \in Arguments \cup WideArguments, t \in ClockReadings}

Signatures ==
    [p \in SignedPairs |-> HmacSha256(p[1], p[2])]

\* window.crypto.subtle.sign('HMAC', cryptoKey, msgBytes), cryptoKey an HMAC key
\* with hash SHA-256: the 32 bytes of HMAC-SHA-256
SubtleSign(cryptoKey, msgBytes) ==
    IF <<cryptoKey, msgBytes>> \in DOMAIN Signatures
    THEN Signatures[<<cryptoKey, msgBytes>>]
    ELSE HmacSha256(cryptoKey, msgBytes)

(***************************************************************************)
(* State.                                                                  *)
(***************************************************************************)
VARIABLES
    now,    \* the wall clock Date.now() reads
    calls   \* calls[c]: the frame of builder call c (its three nested async functions)

vars == <<now, calls>>

Calls ==
    1..NumCalls

\* a call slot nobody has invoked yet
Idle ==
    [pc |-> "idle", variant |-> "", hostname |-> <<>>, deviceId |-> <<>>,
     key |-> <<>>, expiresInMins |-> Undefined,
     reads |-> <<>>, expires |-> Unset, username |-> Unset, resource |-> Unset,
     msg |-> Unset, keyBytes |-> Unset, msgBytes |-> Unset, cryptoKey |-> Unset,
     signature |-> Unset, hmac |-> Pending, token |-> Pending,
     password |-> Unset, websocket |-> Unset, result |-> Pending]

Init ==
    /\ now = ClockStart
    /\ calls = [c \in Calls |-> Idle]

\* time passes
Tick ==
    /\ now < ClockStart + MaxTicks
    /\ now' = now + 1
    /\ UNCHANGED calls

\* createHmac(msg, key) up to its first await (lines 9-11), run inside frame f:
\* atob throwing rejects createHmac's promise; otherwise importKey is pending
createHmacCall(f, msg, key) ==
    LET kb == KeyBytes(key)
    IN  IF ~kb.ok
        THEN [f EXCEPT !.msg = Some(msg),
                       !.hmac = Rejected("InvalidCharacterError"),
                       !.pc = "hmacSettled"]
        ELSE [f EXCEPT !.msg = Some(msg),
                       !.keyBytes = Some(kb.value),
                       !.msgBytes = Some(MsgBytes(msg)),
                       !.pc = "importKey"]

\* getIoTHubV2Credentials(hostname, deviceId, key, expiresInMins) up to its await
\* (lines 29-34): generateV2Token and createHmac run until createHmac suspends
getIoTHubV2Credentials(c, hostname, deviceId, key, expiresInMins) ==
    /\ calls[c].pc = "idle"
    /\ LET expires == ExpiresV2(now, ExpiresInMinsParam(expiresInMins))
           resource == ResourceV2(hostname, deviceId)
           f == [Idle EXCEPT !.variant = "V2", !.hostname = hostname,
                             !.deviceId = deviceId, !.key = key,
                             !.expiresInMins = expiresInMins,
                             !.reads = <<now>>,
                             !.expires = Some(expires),
                             !.username = Some(UsernameV2(hostname, deviceId, expires)),
                             !.resource = Some(resource)]
       IN  calls' = [calls EXCEPT ![c] = createHmacCall(f, MessageV2(resource, expires), key)]
    /\ UNCHANGED now

\* getIoTHubV1Credentials(hostname, deviceId, key, expiresInMins) up to its await
\* (lines 49-57): generateToken and createHmac run until createHmac suspends
getIoTHubV1Credentials(c, hostname, deviceId, key, expiresInMins) ==
    /\ calls[c].pc = "idle"
    /\ LET expires == ExpiresV1(now, ExpiresInMinsParam(expiresInMins))
           resourceUri == ResourceUriV1(hostname, deviceId)
           f == [Idle EXCEPT !.variant = "V1", !.hostname = hostname,
                             !.deviceId = deviceId, !.key = key,
                             !.expiresInMins = expiresInMins,
                             !.reads = <<now>>,
                             !.expires = Some(expires),
                             !.username = Some(UsernameV1(hostname, deviceId)),
                             !.resource = Some(resourceUri)]
       IN  calls' = [calls EXCEPT ![c] = createHmacCall(f, MessageV1(resourceUri, expires), key)]
    /\ UNCHANGED now

\* mutant: keyBytes an implicit global (no const): the key imported is the one
\* any call in flight has stored there
createHmacAfterImportKeySharedKey(c) ==
    /\ calls[c].pc = "importKey"
    /\ \E d \in Calls :
          /\ calls[d].keyBytes # Unset
          /\ LET imported == ImportKey(calls[d].keyBytes[1])
             IN  calls' = [calls EXCEPT ![c] =
                     IF imported.state = "rejected"
                     THEN [@ EXCEPT !.hmac = Rejected(imported.reason),
                                    !.pc = "hmacSettled"]
                     ELSE [@ EXCEPT !.cryptoKey = Some(imported.value[1]),
                                    !.pc = "sign"]]
    /\ UNCHANGED now

\* createHmac resumes from `await importKey` (lines 11-15): a rejection is thrown
\* out of createHmac; otherwise cryptoKey is assigned and sign is called
createHmacAfterImportKey(c) ==
    /\ calls[c].pc = "importKey"
    /\ LET imported == ImportKey(calls[c].keyBytes[1])
       IN  calls' = [calls EXCEPT ![c] =
               IF imported.state = "rejected"
               THEN [@ EXCEPT !.hmac = Rejected(imported.reason), !.pc = "hmacSettled"]
               ELSE [@ EXCEPT !.cryptoKey = Some(imported.value[1]), !.pc = "sign"]]
    /\ UNCHANGED now

\* createHmac resumes from `await sign` (lines 15-16) and returns the base64 text
createHmacAfterSign(c) ==
    /\ calls[c].pc = "sign"
    /\ LET signature == SubtleSign(calls[c].cryptoKey[1], calls[c].msgBytes[1])
       IN  calls' = [calls EXCEPT ![c] =
               [@ EXCEPT !.signature = Some(signature),
                         !.hmac = Fulfilled(EncodeSignature(signature)),
                         !.pc = "hmacSettled"]]
    /\ UNCHANGED now

\* generateV2Token resumes from `await createHmac(...)` (line 31)
generateV2Token(c) ==
    /\ calls[c].pc = "hmacSettled"
    /\ calls[c].variant = "V2"
    /\ calls' = [calls EXCEPT ![c] =
           [@ EXCEPT !.token = IF calls[c].hmac.state = "rejected"
                               THEN Rejected(calls[c].hmac.reason)
                               ELSE Fulfilled(calls[c].hmac.value[1]),
                     !.pc = "tokenSettled"]]
    /\ UNCHANGED now

\* mutant: the se= value computed from a second clock reading, taken when the
\* token is put together
generateTokenReadsClockAgain(c) ==
    /\ calls[c].pc = "hmacSettled"
    /\ calls[c].variant = "V1"
    /\ calls' = [calls EXCEPT ![c] =
           [@ EXCEPT !.reads = Append(@, now),
                     !.token = IF calls[c].hmac.state = "rejected"
                               THEN Rejected(calls[c].hmac.reason)
                               ELSE Fulfilled(SasTokenV1(calls[c].resource[1],
                                       calls[c].hmac.value[1],
                                       ExpiresV1(now, ExpiresInMinsParam(calls[c].expiresInMins)))),
                     !.pc = "tokenSettled"]]
    /\ UNCHANGED now

\* generateToken resumes from `await createHmac(...)` (lines 52-53)
generateToken(c) ==
    /\ calls[c].pc = "hmacSettled"
    /\ calls[c].variant = "V1"
    /\ calls' = [calls EXCEPT ![c] =
           [@ EXCEPT !.token = IF calls[c].hmac.state = "rejected"
                               THEN Rejected(calls[c].hmac.reason)
                               ELSE Fulfilled(SasTokenV1(calls[c].resource[1],
                                                         calls[c].hmac.value[1],
                                                         calls[c].expires[1])),
                     !.pc = "tokenSettled"]]
    /\ UNCHANGED now

\* getIoTHubV2Credentials resumes from `await generateV2Token(...)` (lines 34-36)
getIoTHubV2CredentialsReturn(c) ==
    /\ calls[c].pc = "tokenSettled"
    /\ calls[c].variant = "V2"
    /\ calls' = [calls EXCEPT ![c] =
           IF calls[c].token.state = "rejected"
           THEN [@ EXCEPT !.result = Rejected(calls[c].token.reason), !.pc = "returned"]
           ELSE [@ EXCEPT !.password = Some(calls[c].token.value[1]),
                          !.websocket = Some(websocketV2),
                          !.result = Fulfilled(<<calls[c].username[1],
                                                 calls[c].token.value[1],
                                                 websocketV2>>),
                          !.pc = "returned"]]
    /\ UNCHANGED now

\* mutant: a failed signing caught and answered with a credential that has no
\* password
getIoTHubV1CredentialsReturnPartial(c) ==
    /\ calls[c].pc = "tokenSettled"
    /\ calls[c].variant = "V1"
    /\ calls' = [calls EXCEPT ![c] =
           [@ EXCEPT !.password = IF calls[c].token.state = "rejected" THEN Unset
                                  ELSE Some(calls[c].token.value[1]),
                     !.websocket = Some(websocketV1),
                     !.result = Fulfilled(<<calls[c].username[1],
                                            IF calls[c].token.state = "rejected" THEN <<>>
                                            ELSE calls[c].token.value[1],
                                            websocketV1>>),
                     !.pc = "returned"]]
    /\ UNCHANGED now

\* getIoTHubV1Credentials resumes from `await generateToken(...)` (lines 57-59)
getIoTHubV1CredentialsReturn(c) ==
    /\ calls[c].pc = "tokenSettled"
    /\ calls[c].variant = "V1"
    /\ calls' = [calls EXCEPT ![c] =
           IF calls[c].token.state = "rejected"
           THEN [@ EXCEPT !.result = Rejected(calls[c].token.reason), !.pc = "returned"]
           ELSE [@ EXCEPT !.password = Some(calls[c].token.value[1]),
                          !.websocket = Some(websocketV1),
                          !.result = Fulfilled(<<calls[c].username[1],
                                                 calls[c].token.value[1],
                                                 websocketV1>>),
                          !.pc = "returned"]]
    /\ UNCHANGED now

(***************************************************************************)
(* Specifications.                                                         *)
(***************************************************************************)
\* a caller may invoke a builder on a slot that holds no call yet; the slots are
\* numbered in the order of invocation
Invocable(c) ==
    /\ calls[c].pc = "idle"
    /\ \A b \in Calls : b < c => calls[b].pc # "idle"

\* NumCalls callers, each invoking a builder once; the calls interleave at
\* their awaits
Next ==
    \/ Tick
    \/ \E c \in Calls :
          /\ Invocable(c)
          /\ \E a \in Arguments : getIoTHubV2Credentials(c, a[1], a[2], a[3], a[4])
    \/ \E c \in Calls :
          /\ Invocable(c)
          /\ \E a \in Arguments : getIoTHubV1Credentials(c, a[1], a[2], a[3], a[4])
    \/ \E c \in Calls : createHmacAfterImportKey(c)
    \/ \E c \in Calls : createHmacAfterSign(c)
    \/ \E c \in Calls : generateV2Token(c)
    \/ \E c \in Calls : generateToken(c)
    \/ \E c \in Calls : getIoTHubV2CredentialsReturn(c)
    \/ \E c \in Calls : getIoTHubV1CredentialsReturn(c)

Spec ==
    Init /\ [][Next]_vars

\* one caller, arguments from the wide set
NextWide ==
    \/ Tick
    \/ /\ Invocable(1)
       /\ \E a \in WideArguments : getIoTHubV2Credentials(1, a[1], a[2], a[3], a[4])
    \/ /\ Invocable(1)
       /\ \E a \in WideArguments : getIoTHubV1Credentials(1, a[1], a[2], a[3], a[4])
    \/ createHmacAfterImportKey(1)
    \/ createHmacAfterSign(1)
    \/ generateV2Token(1)
    \/ generateToken(1)
    \/ getIoTHubV2CredentialsReturn(1)
    \/ getIoTHubV1CredentialsReturn(1)

SpecWide ==
    Init /\ [][NextWide]_vars

(***************************************************************************)
(* Vocabulary of the properties.                                           *)
(***************************************************************************)
Started(c) ==
    calls[c].pc # "idle"

Returned(c) ==
    calls[c].pc = "returned"

Succeeded(c) ==
    Returned(c) /\ calls[c].result.state = "fulfilled"

Failed(c) ==
    Returned(c) /\ calls[c].result.state = "rejected"

\* the credential a successful call returned: <<username, password, transport>>
Credential(c) ==
    calls[c].result.value[1]

\* the clock reading call c took
ClockRead(c) ==
    calls[c].reads[1]

\* the validity window in force for call c, in minutes: num * 2^-exp
Window(c) ==
    IF calls[c].expiresInMins.given
    THEN calls[c].expiresInMins
    ELSE [given |-> FALSE, num |-> 5, exp |-> 0]

\* floor and ceiling, in exact arithmetic, of t + minutes * 60 for a window of
\* minutes = w.num * 2^-w.exp (the numbers at hand stay below 2^31 in size)
ExactFloor(t, w) ==
    IF w.exp <= 30 THEN t + ((w.num * 60) \div (2 ^ w.exp))
    ELSE IF w.num < 0 THEN t - 1 ELSE t

ExactCeil(t, w) ==
    IF w.exp <= 30 THEN t - ((-(w.num * 60)) \div (2 ^ w.exp))
    ELSE IF w.num > 0 THEN t + 1 ELSE t

IsSuffix(t, s) ==
    Len(t) <= Len(s) /\ SubSeq(s, Len(s) - Len(t) + 1, Len(s)) = t

IsPrefix(t, s) ==
    Len(t) <= Len(s) /\ SubSeq(s, 1, Len(t)) = t

\* s without its last n characters
DropLast(s, n) ==
    SubSeq(s, 1, Len(s) - n)

\* the last position at or before i where sep occurs in s (0 if there is none)
RECURSIVE LastOccurrence(_, _, _)
LastOccurrence(s, sep, i) ==
    IF i < 1 THEN 0
    ELSE IF SubSeq(s, i, i + Len(sep) - 1) = sep THEN i
    ELSE LastOccurrence(s, sep, i - 1)

\* the text of s after the last occurrence of sep (all of s if there is none)
AfterLast(s, sep) ==
    LET last == LastOccurrence(s, sep, Len(s) - Len(sep) + 1)
    IN  IF last = 0 THEN s ELSE SubSeq(s, last + Len(sep), Len(s))

\* a decimal integer literal: digits, after an optional "-"
IsIntegerText(s) ==
    LET digits == IF s # <<>> /\ s[1] = 45 THEN Tail(s) ELSE s
    IN  digits # <<>> /\ \A i \in 1..Len(digits) : digits[i] >= 48 /\ digits[i] <= 57

RECURSIVE DigitsValue(_)
DigitsValue(s) ==
    IF s = <<>> THEN 0 ELSE DigitsValue(DropLast(s, 1)) * 10 + (s[Len(s)] - 48)

\* the number an integer literal denotes
IntegerValue(s) ==
    IF s[1] = 45 THEN -DigitsValue(Tail(s)) ELSE DigitsValue(s)

\* the text of the expiry field a started call has emitted so far: after the last
\* "se=" of the V2 username, of the V1 password once it exists
ExpiryFieldTexts(c) ==
    (IF calls[c].variant = "V2"
     THEN {AfterLast(calls[c].username[1], <<115, 101, 61>>)} ELSE {})
    \cup (IF calls[c].variant = "V2" /\ Succeeded(c)
          THEN {AfterLast(Credential(c)[1], <<115, 101, 61>>)} ELSE {})
    \cup (IF calls[c].variant = "V1" /\ Succeeded(c)
          THEN {AfterLast(Credential(c)[2], <<115, 101, 61>>)} ELSE {})

(***************************************************************************)
(* C1: in both builders the expiry is ceil(now + expiresInMins * 60): the  *)
(* least integer not below the clock reading plus expiresInMins*60 units   *)
(* (60 per minute, not 60000), for every expiresInMins; omitted            *)
(* expiresInMins counts as 5, giving now + 300; and that integer is what   *)
(* the se= field carries.                                                  *)
(***************************************************************************)
C1_ExpiryArithmetic ==
    \A c \in Calls : Started(c) =>
        LET e == calls[c].expires[1]
            t == ClockRead(c)
        IN  /\ e = ExactCeil(t, Window(c))
            /\ (~calls[c].expiresInMins.given => e = t + 300)
            /\ \A txt \in ExpiryFieldTexts(c) :
                  IsIntegerText(txt) /\ IntegerValue(txt) = e

(***************************************************************************)
(* The texts the specification's formats are written with, spelled out     *)
(* independently of the model's literals.                                  *)
(***************************************************************************)
\* "/devices/"
TXT_V1_Devices ==
    <<47, 100, 101, 118, 105, 99, 101, 115, 47>>
\* "SharedAccessSignature sr="
TXT_V1_SasPrefix ==
    <<83, 104, 97, 114, 101, 100, 65, 99, 99, 101, 115, 115, 83, 105, 103,
      110, 97, 116, 117, 114, 101, 32, 115, 114, 61>>
\* "&sig="
TXT_V1_Sig ==
    <<38, 115, 105, 103, 61>>
\* "&se="
TXT_V1_Se ==
    <<38, 115, 101, 61>>
\* "/?api-version=2020-09-30"
TXT_V1_UsernameTail ==
    <<47, 63, 97, 112, 105, 45, 118, 101, 114, 115, 105, 111, 110, 61, 50,
      48, 50, 48, 45, 48, 57, 45, 51, 48>>
\* "av=2021-06-30-preview&h="
TXT_V2_UsernameHead ==
    <<97, 118, 61, 50, 48, 50, 49, 45, 48, 54, 45, 51, 48, 45, 112, 114, 101,
      118, 105, 101, 119, 38, 104, 61>>
\* "&did="
TXT_V2_Did ==
    <<38, 100, 105, 100, 61>>
\* "&am=SASb64&se="
TXT_V2_AmSe ==
    <<38, 97, 109, 61, 83, 65, 83, 98, 54, 52, 38, 115, 101, 61>>

\* percent-decoding of ASCII text: %XY gives the character with hex code XY
HexValue(h) ==
    IF h >= 48 /\ h <= 57 THEN h - 48 ELSE h - 55

RECURSIVE PercentDecode(_)
PercentDecode(s) ==
    IF s = <<>> THEN <<>>
    ELSE IF s[1] = 37 /\ Len(s) >= 3
         THEN <<HexValue(s[2]) * 16 + HexValue(s[3])>>
              \o PercentDecode(SubSeq(s, 4, Len(s)))
         ELSE <<s[1]>> \o PercentDecode(Tail(s))

\* the decimal text of call c's expiry, read back from what the call emitted
\* into its message: the last line of the V1 message, the last-but-one of V2's
MessageExpiryText(c) ==
    IF calls[c].variant = "V1"
    THEN AfterLast(calls[c].msg[1], <<10>>)
    ELSE AfterLast(DropLast(calls[c].msg[1], 1), <<10>>)

\* the base64 signature of message m under call c's key
SignatureOf(c, m) ==
    Btoa(SubtleSign(KeyBytes(calls[c].key).value, MsgBytes(m)))

(***************************************************************************)
(* C2: the V1 builder hands the Signer exactly                             *)
(* hostname "/devices/" deviceId "\n" expires, and on success its password *)
(* is "SharedAccessSignature sr=" hostname "/devices/" deviceId "&sig="    *)
(* urlEncode(signature of that message) "&se=" expires: the sig segment    *)
(* has no literal + / =, the resource URI in sr= is left unencoded.        *)
(***************************************************************************)
C2_V1MessageAndPassword ==
    \A c \in Calls : (Started(c) /\ calls[c].variant = "V1") =>
        LET f == calls[c]
            d == MessageExpiryText(c)
            uri == f.hostname \o TXT_V1_Devices \o f.deviceId
            message == uri \o <<10>> \o d
            head == TXT_V1_SasPrefix \o uri \o TXT_V1_Sig
            tail == TXT_V1_Se \o d
        IN  /\ f.msg[1] = message
            /\ IsIntegerText(d) /\ IntegerValue(d) = f.expires[1]
            /\ Succeeded(c) =>
                  LET password == Credential(c)[2]
                      sig == SubSeq(password, Len(head) + 1, Len(password) - Len(tail))
                  IN  /\ IsPrefix(head, password)
                      /\ IsSuffix(tail, password)
                      /\ Len(password) > Len(head) + Len(tail)
                      /\ \A i \in 1..Len(sig) : sig[i] \notin {43, 47, 61}
                      /\ \A i \in 1..Len(sig) : sig[i] = 37 =>
                            /\ i + 2 <= Len(sig)
                            /\ \A j \in {i + 1, i + 2} :
                                  \/ sig[j] >= 48 /\ sig[j] <= 57
                                  \/ sig[j] >= 65 /\ sig[j] <= 70
                      /\ PercentDecode(sig) = SignatureOf(c, message)

\* a V1 call whose hostname holds characters a URI encoder would escape
\* ("/", " ", "+") returned a password whose signature held a "+" or a "/"
C2_Witness ==
    \E c \in Calls :
        /\ Succeeded(c)
        /\ calls[c].variant = "V1"
        /\ calls[c].hostname = <<97, 47, 98, 32, 99, 43, 100>>
        /\ \E i \in 1..Len(calls[c].hmac.value[1]) :
              calls[c].hmac.value[1][i] \in {43, 47}

(***************************************************************************)
(* C3: the V2 builder hands the Signer exactly                             *)
(* hostname "\n" deviceId "\n\n\n" expires "\n", and on success its        *)
(* password is the Signer's base64 output for that message, byte for byte, *)
(* with no percent-encoding and no prefix.                                 *)
(***************************************************************************)
C3_V2MessageAndPassword ==
    \A c \in Calls : (Started(c) /\ calls[c].variant = "V2") =>
        LET f == calls[c]
            d == MessageExpiryText(c)
            message == f.hostname \o <<10>> \o f.deviceId \o <<10, 10, 10>>
                       \o d \o <<10>>
        IN  /\ f.msg[1] = message
            /\ IsIntegerText(d) /\ IntegerValue(d) = f.expires[1]
            /\ Succeeded(c) =>
                  /\ Credential(c)[2] = SignatureOf(c, message)
                  /\ Credential(c)[2] = f.hmac.value[1]

\* a V2 call returned a password that still holds base64's "+" or "/" and "="
C3_Witness ==
    \E c \in Calls :
        /\ Succeeded(c)
        /\ calls[c].variant = "V2"
        /\ \E i \in 1..Len(Credential(c)[2]) : Credential(c)[2][i] \in {43, 47}
        /\ Credential(c)[2][Len(Credential(c)[2])] = 61

(***************************************************************************)
(* C4: the username is the variant's template filled with hostname and     *)
(* deviceId verbatim: V1 hostname "/" deviceId "/?api-version=2020-09-30"  *)
(* (the same for every key and expiry); V2 "av=2021-06-30-preview&h="      *)
(* hostname "&did=" deviceId "&am=SASb64&se=" expires.                     *)
(***************************************************************************)
C4_UsernameTemplates ==
    \A c \in Calls : Succeeded(c) =>
        LET f == calls[c]
            d == AfterLast(Credential(c)[1], <<61>>)
        IN  IF f.variant = "V1"
            THEN Credential(c)[1] =
                    f.hostname \o <<47>> \o f.deviceId \o TXT_V1_UsernameTail
            ELSE /\ Credential(c)[1] =
                       TXT_V2_UsernameHead \o f.hostname \o TXT_V2_Did
                       \o f.deviceId \o TXT_V2_AmSe \o d
                 /\ IsIntegerText(d) /\ IntegerValue(d) = f.expires[1]

\* a V2 call with hostname "a/b c+d" and deviceId "d&se=9" has returned
C4_Witness ==
    \E c \in Calls :
        /\ Succeeded(c)
        /\ calls[c].variant = "V2"
        /\ calls[c].hostname = <<97, 47, 98, 32, 99, 43, 100>>
        /\ calls[c].deviceId = <<100, 38, 115, 101, 61, 57>>

\* strict standard base64 (RFC 4648 section 4): only A-Z a-z 0-9 + /, in groups of
\* four, the last group padded with one or two "="
IsStandardBase64(key) ==
    LET n == Len(key)
        pad == IF n >= 2 /\ key[n] = 61 /\ key[n - 1] = 61 THEN 2
               ELSE IF n >= 1 /\ key[n] = 61 THEN 1 ELSE 0
    IN  /\ n % 4 = 0
        /\ \A i \in 1..(n - pad) :
              \/ key[i] >= 65 /\ key[i] <= 90
              \/ key[i] >= 97 /\ key[i] <= 122
              \/ key[i] >= 48 /\ key[i] <= 57
              \/ key[i] \in {43, 47}

\* what forgiving-base64 decoding takes: with ASCII whitespace removed, and up to
\* two trailing "=" dropped from a length that is a multiple of four, only
\* A-Z a-z 0-9 + / are left and their number is not 1 modulo 4
ForgivingBase64Accepts(key) ==
    LET s == SelectSeq(key, LAMBDA u : u \notin {9, 10, 12, 13, 32})
        n == Len(s)
        pad == IF n % 4 # 0 THEN 0
               ELSE IF n >= 2 /\ s[n] = 61 /\ s[n - 1] = 61 THEN 2
               ELSE IF n >= 1 /\ s[n] = 61 THEN 1 ELSE 0
    IN  /\ (n - pad) % 4 # 1
        /\ \A i \in 1..(n - pad) :
              \/ s[i] >= 65 /\ s[i] <= 90
              \/ s[i] >= 97 /\ s[i] <= 122
              \/ s[i] >= 48 /\ s[i] <= 57
              \/ s[i] \in {43, 47}

(***************************************************************************)
(* C5, as claimed: every call whose key is not valid standard base64 ends  *)
(* in the key-decode error.                                                *)
(***************************************************************************)
C5_AsClaimed ==
    \A c \in Calls : (Returned(c) /\ ~IsStandardBase64(calls[c].key)) =>
        calls[c].result = Rejected("InvalidCharacterError")

(***************************************************************************)
(* C5, amended: every call whose key forgiving-base64 decoding rejects     *)
(* (for instance any key holding "%") fails with the key-decode error,     *)
(* raised at the decoding step: no key is imported, nothing is signed, and *)
(* both builders end with that error and no credential.                    *)
(***************************************************************************)
C5_DecodeErrorBeforeImport ==
    \A c \in Calls : (Started(c) /\ ~ForgivingBase64Accepts(calls[c].key)) =>
        /\ calls[c].pc \in {"hmacSettled", "tokenSettled", "returned"}
        /\ calls[c].hmac = Rejected("InvalidCharacterError")
        /\ calls[c].keyBytes = Unset
        /\ calls[c].cryptoKey = Unset
        /\ calls[c].signature = Unset
        /\ Returned(c) => calls[c].result = Rejected("InvalidCharacterError")

\* a call whose key holds "%" has ended with the key-decode error
C5_Witness ==
    \E c \in Calls :
        /\ Failed(c)
        /\ \E i \in 1..Len(calls[c].key) : calls[c].key[i] = 37
        /\ calls[c].result.reason = "InvalidCharacterError"

(***************************************************************************)
(* C6: a finished call has exactly one of two outcomes: a credential with  *)
(* all three components, or the Signer's error, unchanged, and no          *)
(* credential.  Before it finishes nothing is exposed, though the username *)
(* is built before the first suspension.                                   *)
(***************************************************************************)
C6_AllOrNothing ==
    \A c \in Calls :
        LET f == calls[c]
        IN  /\ ~Returned(c) => f.result = Pending
            /\ Returned(c) =>
                  \/ /\ f.result.state = "fulfilled"
                     /\ f.result.reason = ""
                     /\ Len(Credential(c)) = 3
                     /\ \A i \in 1..3 : Credential(c)[i] # <<>>
                     /\ f.username # Unset /\ f.password # Unset /\ f.websocket # Unset
                     /\ Credential(c) = <<f.username[1], f.password[1], f.websocket[1]>>
                     /\ f.hmac.state = "fulfilled"
                  \/ /\ f.result.state = "rejected"
                     /\ f.result.value = <<>>
                     /\ f.hmac.state = "rejected"
                     /\ f.result.reason = f.hmac.reason
                     /\ f.result.reason \in {"InvalidCharacterError", "DataError"}
                     /\ f.password = Unset /\ f.websocket = Unset
                     /\ f.signature = Unset

\* a call whose key import was refused has failed, its username already built
C6_Witness ==
    \E c \in Calls :
        /\ Failed(c)
        /\ calls[c].result.reason = "DataError"
        /\ calls[c].username # Unset

\* the builder run from start to end with nothing else going on, the clock
\* reading t
RunAlone(variant, hostname, deviceId, key, expiresInMins, t) ==
    LET mins == ExpiresInMinsParam(expiresInMins)
        expires == IF variant = "V2" THEN ExpiresV2(t, mins) ELSE ExpiresV1(t, mins)
        username == IF variant = "V2" THEN UsernameV2(hostname, deviceId, expires)
                    ELSE UsernameV1(hostname, deviceId)
        resource == IF variant = "V2" THEN ResourceV2(hostname, deviceId)
                    ELSE ResourceUriV1(hostname, deviceId)
        msg == IF variant = "V2" THEN MessageV2(resource, expires)
               ELSE MessageV1(resource, expires)
        kb == KeyBytes(key)
        imported == ImportKey(kb.value)
        hmac == EncodeSignature(SubtleSign(imported.value[1], MsgBytes(msg)))
    IN  IF ~kb.ok THEN Rejected("InvalidCharacterError")
        ELSE IF imported.state = "rejected" THEN Rejected(imported.reason)
        ELSE IF variant = "V2" THEN Fulfilled(<<username, hmac, websocketV2>>)
        ELSE Fulfilled(<<username, SasTokenV1(resource, hmac, expires), websocketV1>>)

SameArguments(c, d) ==
    /\ calls[c].variant = calls[d].variant
    /\ calls[c].hostname = calls[d].hostname
    /\ calls[c].deviceId = calls[d].deviceId
    /\ calls[c].key = calls[d].key
    /\ calls[c].expiresInMins = calls[d].expiresInMins

(***************************************************************************)
(* C7: whatever other calls are in flight and however their steps          *)
(* interleave, a call's outcome is the outcome of that call run alone with *)
(* the same arguments and clock reading; two calls with the same arguments *)
(* and clock reading end with the same outcome.                            *)
(***************************************************************************)
C7_CallsDoNotInteract ==
    /\ \A c \in Calls : Returned(c) =>
          calls[c].result = RunAlone(calls[c].variant, calls[c].hostname,
                                     calls[c].deviceId, calls[c].key,
                                     calls[c].expiresInMins, ClockRead(c))
    /\ \A c, d \in Calls :
          (Returned(c) /\ Returned(d) /\ SameArguments(c, d)
           /\ ClockRead(c) = ClockRead(d)) => calls[c].result = calls[d].result

\* a call has returned a credential while a call with another key was between
\* its key import and its signing
C7_Witness ==
    \E c, d \in Calls :
        /\ c # d
        /\ Succeeded(c)
        /\ calls[d].pc \in {"importKey", "sign"}
        /\ calls[d].key # calls[c].key

\* the number of newline separators in a message
Newlines(s) ==
    Cardinality({i \in 1..Len(s) : s[i] = 10})

\* the text of s before the last occurrence of sep
BeforeLast(s, sep) ==
    DropLast(s, Len(AfterLast(s, sep)) + Len(sep))

\* two calls of one variant, made at the same clock reading, whose arguments
\* differ in expiresInMins alone
DifferOnlyInWindow(c, d) ==
    /\ Started(c) /\ Started(d)
    /\ calls[c].variant = calls[d].variant
    /\ calls[c].hostname = calls[d].hostname
    /\ calls[c].deviceId = calls[d].deviceId
    /\ calls[c].key = calls[d].key
    /\ ClockRead(c) = ClockRead(d)
    /\ calls[c].expiresInMins # calls[d].expiresInMins

\* a message with its expiry field cut out: what is before it, what is after
MessageFrame(c) ==
    LET m == calls[c].msg[1]
        d == MessageExpiryText(c)
    IN  IF calls[c].variant = "V1"
        THEN <<DropLast(m, Len(d)), <<>>>>
        ELSE <<DropLast(m, Len(d) + 1), SubSeq(m, Len(m), Len(m))>>

(***************************************************************************)
(* C8: two calls of one variant at the same clock reading that differ only *)
(* in expiresInMins differ only where the expiry enters: same transport,   *)
(* same V1 username, V2 usernames equal up to the value after "se=", V1    *)
(* passwords equal up to the sig= and se= values, messages equal up to the *)
(* expires field (same fields, same number of newlines).                   *)
(***************************************************************************)
C8_WindowChangesOnlyExpiry ==
    \A c, d \in Calls : DifferOnlyInWindow(c, d) =>
        /\ MessageFrame(c) = MessageFrame(d)
        /\ Newlines(calls[c].msg[1]) = Newlines(calls[d].msg[1])
        /\ calls[c].variant = "V1" => calls[c].username = calls[d].username
        /\ calls[c].variant = "V2" =>
              /\ BeforeLast(calls[c].username[1], <<115, 101, 61>>)
                 = BeforeLast(calls[d].username[1], <<115, 101, 61>>)
              /\ \A x \in {c, d} :
                    IsIntegerText(AfterLast(calls[x].username[1], <<115, 101, 61>>))
        /\ (Succeeded(c) /\ Succeeded(d)) =>
              /\ Credential(c)[3] = Credential(d)[3]
              /\ calls[c].variant = "V1" =>
                    /\ Credential(c)[1] = Credential(d)[1]
                    /\ BeforeLast(Credential(c)[2], TXT_V1_Sig)
                       = BeforeLast(Credential(d)[2], TXT_V1_Sig)
                    /\ \A x \in {c, d} :
                          LET p == Credential(x)[2]
                              sig == AfterLast(BeforeLast(p, TXT_V1_Se), TXT_V1_Sig)
                          IN  /\ p = BeforeLast(p, TXT_V1_Sig) \o TXT_V1_Sig \o sig
                                     \o TXT_V1_Se \o AfterLast(p, TXT_V1_Se)
                              /\ IsIntegerText(AfterLast(p, TXT_V1_Se))
                              /\ \A i \in 1..Len(sig) : sig[i] # 38
              /\ calls[c].variant = "V2" =>
                    BeforeLast(Credential(c)[1], <<115, 101, 61>>)
                    = BeforeLast(Credential(d)[1], <<115, 101, 61>>)

\* two V1 calls at one clock reading, one with the default window and one with
\* half a minute, have both returned; their expiries and signatures differ
C8_Witness ==
    \E c, d \in Calls :
        /\ DifferOnlyInWindow(c, d)
        /\ calls[c].variant = "V1"
        /\ Succeeded(c) /\ Succeeded(d)
        /\ calls[c].expires # calls[d].expires
        /\ calls[c].hmac # calls[d].hmac
        /\ Credential(c)[2] # Credential(d)[2]

\* the positions of msg where a surrogate pair starts
PairStarts(msg) ==
    {i \in 1..(Len(msg) - 1) : IsHighSurrogate(msg[i]) /\ IsLowSurrogate(msg[i + 1])}

(***************************************************************************)
(* C9: the Signer signs one byte per character: for a message of           *)
(* characters 0..255 the bytes are the code points, in order; a character  *)
(* above 255 becomes the single byte code unit mod 256 (never several      *)
(* bytes), so the byte count never exceeds the character count.            *)
(***************************************************************************)
C9_OneCharacterOneByte ==
    \A c \in Calls : (Started(c) /\ calls[c].msgBytes # Unset) =>
        LET m == calls[c].msg[1]
            b == calls[c].msgBytes[1]
            pairs == PairStarts(m)
        IN  /\ Len(b) <= Len(m)
            /\ \A i \in 1..Len(b) : b[i] >= 0 /\ b[i] <= 255
            /\ (\A i \in 1..Len(m) : m[i] <= 255) => b = m
            /\ Len(b) = Len(m) - Cardinality(pairs)
            /\ \A i \in 1..Len(m) : (i - 1) \notin pairs =>
                  b[i - Cardinality({j \in pairs : j < i})] = m[i] % 256
            /\ calls[c].signature # Unset =>
                  calls[c].signature[1] = SubtleSign(calls[c].cryptoKey[1], b)

\* a message holding U+00FF and U+0141 has been signed: byte 255 and byte 65
C9_Witness ==
    \E c \in Calls :
        /\ calls[c].signature # Unset
        /\ calls[c].hostname = <<104, 255, 321>>
        /\ SubSeq(calls[c].msgBytes[1], 1, 3) = <<104, 255, 65>>

(***************************************************************************)
(* C10: a call reads the clock once, before it first suspends, and the one *)
(* expiry computed from that reading is the expires field of the signed    *)
(* message and the se= value of the credential, however far the clock has  *)
(* moved on while the signing was pending.                                 *)
(***************************************************************************)
C10_OneClockReading ==
    \A c \in Calls : Started(c) =>
        LET e == calls[c].expires[1]
            w == Window(c)
            d == MessageExpiryText(c)
        IN  /\ Len(calls[c].reads) = 1
            /\ ClockRead(c) <= now
            /\ e >= ExactFloor(ClockRead(c), w) /\ e <= ExactCeil(ClockRead(c), w)
            /\ IsIntegerText(d) /\ IntegerValue(d) = e
            /\ \A txt \in ExpiryFieldTexts(c) : txt = d

\* a call has returned its credential after the clock moved on, and another
\* call was started at a later clock reading meanwhile
C10_Witness ==
    \E c, d \in Calls :
        /\ c # d
        /\ Succeeded(c)
        /\ now > ClockRead(c)
        /\ Started(d) /\ ClockRead(d) > ClockRead(c)

====
